---- MODULE Spec2Model ----
(***************************************************************************)
(* A model of package web3 (src/web3.go): the EIP-55 checksum codec        *)
(* (ToChecksumAddress, IsChecksumAddress), the 32-byte padding helpers     *)
(* (PadHexStringTo32Bytes, PadTo32Bytes) and ConcatBytes.                  *)
(*                                                                         *)
(* Go values are represented as follows.                                   *)
(*   byte      an integer in 0..255                                        *)
(*   string    a sequence of bytes (Go strings are byte strings); the      *)
(*             characters that occur are ASCII, so a character is its code *)
(*   []byte    by value: a sequence of bytes; where storage matters        *)
(*             (PadTo32Bytes, ConcatBytes): a slice [ptr, len, cap] into a *)
(*             memory of backing arrays                                    *)
(*   panic     a run-time panic of the call is an outcome of its own,      *)
(*             the field panic of the outcome                              *)
(***************************************************************************)
EXTENDS Integers, Sequences, FiniteSets, TLC

VARIABLES
    op,         \* the function called ("none" before the call)
    written,    \* what the caller wrote to after the call: "none", "ret", "arg"
    addr,       \* ToChecksumAddress: the argument a
    encoded,    \* ToChecksumAddress: the outcome
    candidate,  \* IsChecksumAddress: the argument address
    valid,      \* IsChecksumAddress: the outcome
    hexString,  \* PadHexStringTo32Bytes: the argument
    padded,     \* PadHexStringTo32Bytes: the outcome
    mem,        \* the backing arrays of the byte slices alive
    args,       \* PadTo32Bytes / ConcatBytes: the argument slices
    ret,        \* PadTo32Bytes / ConcatBytes: the returned slice
    argVals,    \* the arguments' bytes when the call returned
    retVal      \* the returned bytes when the call returned

vars == <<op, written, addr, encoded, candidate, valid, hexString, padded,
          mem, args, ret, argVals, retVal>>

\* TLC evaluates a function constructor lazily, on every application; a
\* sequence concatenated with the empty sequence is the same sequence,
\* evaluated once.
Eval(s) == s \o <<>>

(***************************************************************************)
(* Characters.                                                             *)
(***************************************************************************)
Ch0 == 48
Ch8 == 56
Ch9 == 57
ChUpperA == 65
ChUpperF == 70
ChLowerA == 97
ChLowerF == 102
ChLowerX == 120
ChLowerZ == 122

\* The string "0x".
Prefix0x == <<Ch0, ChLowerX>>

\* strings.HasPrefix(s, prefix)
HasPrefix(s, prefix) ==
    /\ Len(s) >= Len(prefix)
    /\ SubSeq(s, 1, Len(prefix)) = prefix

\* strings.ToUpper(string(c))[0] for an ASCII character c: a-z map to A-Z,
\* every other character is returned as it is.
ToUpper(c) ==
    IF c >= ChLowerA /\ c <= ChLowerZ THEN c - (ChLowerA - ChUpperA) ELSE c

(***************************************************************************)
(* encoding/hex.                                                           *)
(***************************************************************************)
\* hextable = "0123456789abcdef"
HexTable == <<48, 49, 50, 51, 52, 53, 54, 55, 56, 57, 97, 98, 99, 100, 101, 102>>

\* hex.EncodeToString: two lowercase digits per byte, high nibble first.
EncodeToString(src) ==
    Eval([i \in 1..(2 * Len(src)) |->
        LET b == src[(i + 1) \div 2]
        IN  IF i % 2 = 1 THEN HexTable[(b \div 16) + 1] ELSE HexTable[(b % 16) + 1]])

\* fromHexChar: the value of a hex digit of either case, -1 for any other
\* character.
FromHexCharLowerOnly(c) ==
    IF c >= Ch0 /\ c <= Ch9 THEN c - Ch0
    ELSE IF c >= ChLowerA /\ c <= ChLowerF THEN c - ChLowerA + 10
    ELSE -1
FromHexChar(c) ==
    IF c >= Ch0 /\ c <= Ch9 THEN c - Ch0
    ELSE IF c >= ChLowerA /\ c <= ChLowerF THEN c - ChLowerA + 10
    ELSE IF c >= ChUpperA /\ c <= ChUpperF THEN c - ChUpperA + 10
    ELSE -1

\* hex.DecodeString: err is "nil", or "InvalidByteError" when a character is
\* no hex digit, or "ErrLength" when every character of an odd-length input
\* is a hex digit. bytes is meaningful only when err = "nil".
DecodeString(s) ==
    IF \E i \in 1..Len(s) : FromHexChar(s[i]) < 0
    THEN [bytes |-> <<>>, err |-> "InvalidByteError"]
    ELSE IF Len(s) % 2 = 1
    THEN [bytes |-> <<>>, err |-> "ErrLength"]
    ELSE [bytes |-> Eval([k \in 1..(Len(s) \div 2) |->
                        16 * FromHexChar(s[2 * k - 1]) + FromHexChar(s[2 * k])]),
          err |-> "nil"]

(***************************************************************************)
(* sha3.NewLegacyKeccak256: Keccak-256 with the original Keccak padding    *)
(* (rate 136 bytes, capacity 512 bits, domain byte 0x01).  A 64-bit lane   *)
(* is a sequence of 16 nibbles, least significant first; the state is the  *)
(* 25 lanes A[x + 5y].                                                     *)
(***************************************************************************)
Rate == 136
Rounds == 24
LaneNibbles == 16

\* Bitwise operations on nibbles, tabulated: Xor4[a + 1][b + 1] = a XOR b.
BitOf(a, k) == (a \div (2 ^ k)) % 2
Xor4 ==
    Eval([a \in 1..16 |-> Eval([b \in 1..16 |->
        ((BitOf(a - 1, 0) + BitOf(b - 1, 0)) % 2)
        + 2 * ((BitOf(a - 1, 1) + BitOf(b - 1, 1)) % 2)
        + 4 * ((BitOf(a - 1, 2) + BitOf(b - 1, 2)) % 2)
        + 8 * ((BitOf(a - 1, 3) + BitOf(b - 1, 3)) % 2)])])
\* AndNot4[a + 1][b + 1] = (NOT a) AND b.
AndNot4 ==
    Eval([a \in 1..16 |-> Eval([b \in 1..16 |->
        ((1 - BitOf(a - 1, 0)) * BitOf(b - 1, 0))
        + 2 * ((1 - BitOf(a - 1, 1)) * BitOf(b - 1, 1))
        + 4 * ((1 - BitOf(a - 1, 2)) * BitOf(b - 1, 2))
        + 8 * ((1 - BitOf(a - 1, 3)) * BitOf(b - 1, 3))])])

ZeroLane == Eval([k \in 1..LaneNibbles |-> 0])
XorLane(p, q) == Eval([k \in 1..LaneNibbles |-> Xor4[p[k] + 1][q[k] + 1]])
AndNotLane(p, q) == Eval([k \in 1..LaneNibbles |-> AndNot4[p[k] + 1][q[k] + 1]])

\* Rotate a lane left by r bits, 0 <= r < 64.
RotLane(p, r) ==
    LET q == r \div 4
        s == r % 4
    IN  Eval([k \in 1..LaneNibbles |->
            ((p[((k - 1 - q + LaneNibbles) % LaneNibbles) + 1] * (2 ^ s)) % 16)
            + (p[((k - 2 - q + 2 * LaneNibbles) % LaneNibbles) + 1] \div (2 ^ (4 - s)))])

\* The rotation offsets r[x][y] of the rho step, as RhoOffsets[x + 1][y + 1].
RhoOffsets ==
    << << 0, 36,  3, 41, 18>>,
       << 1, 44, 10, 45,  2>>,
       <<62,  6, 43, 15, 61>>,
       <<28, 55, 25, 21, 56>>,
       <<27, 20, 39,  8, 14>> >>

\* The round constants of the iota step, as lanes.
RoundConstants ==
    << << 1, 0, 0, 0, 0, 0, 0, 0, 0, 0, 0, 0, 0, 0, 0, 0 >>,   \* 0000000000000001
       << 2, 8, 0, 8, 0, 0, 0, 0, 0, 0, 0, 0, 0, 0, 0, 0 >>,   \* 0000000000008082
       << 10, 8, 0, 8, 0, 0, 0, 0, 0, 0, 0, 0, 0, 0, 0, 8 >>,  \* 800000000000808A
       << 0, 0, 0, 8, 0, 0, 0, 8, 0, 0, 0, 0, 0, 0, 0, 8 >>,   \* 8000000080008000
       << 11, 8, 0, 8, 0, 0, 0, 0, 0, 0, 0, 0, 0, 0, 0, 0 >>,  \* 000000000000808B
       << 1, 0, 0, 0, 0, 0, 0, 8, 0, 0, 0, 0, 0, 0, 0, 0 >>,   \* 0000000080000001
       << 1, 8, 0, 8, 0, 0, 0, 8, 0, 0, 0, 0, 0, 0, 0, 8 >>,   \* 8000000080008081
       << 9, 0, 0, 8, 0, 0, 0, 0, 0, 0, 0, 0, 0, 0, 0, 8 >>,   \* 8000000000008009
       << 10, 8, 0, 0, 0, 0, 0, 0, 0, 0, 0, 0, 0, 0, 0, 0 >>,  \* 000000000000008A
       << 8, 8, 0, 0, 0, 0, 0, 0, 0, 0, 0, 0, 0, 0, 0, 0 >>,   \* 0000000000000088
       << 9, 0, 0, 8, 0, 0, 0, 8, 0, 0, 0, 0, 0, 0, 0, 0 >>,   \* 0000000080008009
       << 10, 0, 0, 0, 0, 0, 0, 8, 0, 0, 0, 0, 0, 0, 0, 0 >>,  \* 000000008000000A
       << 11, 8, 0, 8, 0, 0, 0, 8, 0, 0, 0, 0, 0, 0, 0, 0 >>,  \* 000000008000808B
       << 11, 8, 0, 0, 0, 0, 0, 0, 0, 0, 0, 0, 0, 0, 0, 8 >>,  \* 800000000000008B
       << 9, 8, 0, 8, 0, 0, 0, 0, 0, 0, 0, 0, 0, 0, 0, 8 >>,   \* 8000000000008089
       << 3, 0, 0, 8, 0, 0, 0, 0, 0, 0, 0, 0, 0, 0, 0, 8 >>,   \* 8000000000008003
       << 2, 0, 0, 8, 0, 0, 0, 0, 0, 0, 0, 0, 0, 0, 0, 8 >>,   \* 8000000000008002
       << 0, 8, 0, 0, 0, 0, 0, 0, 0, 0, 0, 0, 0, 0, 0, 8 >>,   \* 8000000000000080
       << 10, 0, 0, 8, 0, 0, 0, 0, 0, 0, 0, 0, 0, 0, 0, 0 >>,  \* 000000000000800A
       << 10, 0, 0, 0, 0, 0, 0, 8, 0, 0, 0, 0, 0, 0, 0, 8 >>,  \* 800000008000000A
       << 1, 8, 0, 8, 0, 0, 0, 8, 0, 0, 0, 0, 0, 0, 0, 8 >>,   \* 8000000080008081
       << 0, 8, 0, 8, 0, 0, 0, 0, 0, 0, 0, 0, 0, 0, 0, 8 >>,   \* 8000000000008080
       << 1, 0, 0, 0, 0, 0, 0, 8, 0, 0, 0, 0, 0, 0, 0, 0 >>,   \* 0000000080000001
       << 8, 0, 0, 8, 0, 0, 0, 8, 0, 0, 0, 0, 0, 0, 0, 8 >> >> \* 8000000080008008

\* One round of Keccak-f[1600]: theta, rho and pi, chi, iota. Lane (x, y) of
\* the state is A[x + 5y + 1].
KeccakRound(A, rc) ==
    LET C == Eval([i \in 1..5 |->
                XorLane(XorLane(XorLane(XorLane(A[i], A[i + 5]), A[i + 10]),
                                A[i + 15]), A[i + 20])])
        D == Eval([i \in 1..5 |->
                XorLane(C[((i + 3) % 5) + 1], RotLane(C[(i % 5) + 1], 1))])
        T == Eval([i \in 1..25 |-> XorLane(A[i], D[((i - 1) % 5) + 1])])
        \* B[y, 2x + 3y] = rot(T[x, y], r[x, y]); the lane at (X, Y) comes
        \* from x = (X + 3Y) mod 5, y = X.
        B == Eval([i \in 1..25 |->
                LET X == (i - 1) % 5
                    Y == (i - 1) \div 5
                    x == (X + 3 * Y) % 5
                IN  RotLane(T[x + 5 * X + 1], RhoOffsets[x + 1][X + 1])])
        E == Eval([i \in 1..25 |->
                LET x == (i - 1) % 5
                    y == (i - 1) \div 5
                IN  XorLane(B[i], AndNotLane(B[((x + 1) % 5) + 5 * y + 1],
                                             B[((x + 2) % 5) + 5 * y + 1]))])
    IN  [E EXCEPT ![1] = XorLane(E[1], rc)]

RECURSIVE KeccakF(_, _)
\* Keccak-f[1600]: rounds n .. Rounds of the permutation, R being the state
\* after round n - 1. (The test on R has TLC compute it before the next round
\* starts; an operator's argument is otherwise computed where it is first
\* used, 24 rounds deep.)
KeccakF(R, n) ==
    IF n > Rounds \/ Len(R) # 25 THEN R
    ELSE KeccakF(KeccakRound(R, RoundConstants[n]), n + 1)

\* The message padded to a multiple of the rate: 0x01, zeros, and 0x80 or-ed
\* into the last byte.
KeccakPad(msg) ==
    LET fill == Rate - (Len(msg) % Rate)
    IN  IF fill = 1
        THEN msg \o <<129>>
        ELSE msg \o <<1>> \o [i \in 1..(fill - 2) |-> 0] \o <<128>>

\* Lane j (1..17) of a block of Rate bytes, little-endian.
BlockLane(block, j) ==
    Eval([k \in 1..LaneNibbles |->
        LET b == block[8 * (j - 1) + ((k - 1) \div 2) + 1]
        IN  IF k % 2 = 1 THEN b % 16 ELSE b \div 16])

RECURSIVE KeccakAbsorb(_, _)
\* Absorb the padded message, a block at a time.
KeccakAbsorb(A, p) ==
    IF Len(p) = 0 THEN A
    ELSE LET block == SubSeq(p, 1, Rate)
             X == Eval([i \in 1..25 |->
                    IF i <= Rate \div 8 THEN XorLane(A[i], BlockLane(block, i)) ELSE A[i]])
         IN  KeccakAbsorb(KeccakF(X, 1), SubSeq(p, Rate + 1, Len(p)))

\* hasher.Write(msg); hasher.Sum(nil): the 32 bytes of the digest.
Keccak256(msg) ==
    LET A == KeccakAbsorb(Eval([i \in 1..25 |-> ZeroLane]), KeccakPad(msg))
    IN  Eval([n \in 1..32 |->
            LET lane == A[((n - 1) \div 8) + 1]
                m == (n - 1) % 8
            IN  lane[2 * m + 1] + 16 * lane[2 * m + 2]])

(***************************************************************************)
(* The checksum codec.                                                     *)
(***************************************************************************)
AddressLen == 42

\* The body of the loop of ToChecksumAddress for one character c of address
\* and the character h of hashHex at the same index.
ChecksumCharStrict(c, h) == IF h > Ch8 THEN ToUpper(c) ELSE c
ChecksumChar(c, h) == IF h >= Ch8 THEN ToUpper(c) ELSE c

\* The loop of ToChecksumAddress over address, and its outcome [panic, str,
\* err]. hashHex has 64 characters, so hashHex[i] is out of range, and the
\* call panics, when address has more than 64 characters.
ChecksumLoop(address, hashHex) ==
    IF Len(address) > Len(hashHex)
    THEN [panic |-> TRUE, str |-> <<>>, err |-> "nil"]
    ELSE [panic |-> FALSE,
          str   |-> Prefix0x \o [i \in 1..Len(address) |->
                                    ChecksumChar(address[i], hashHex[i])],
          err   |-> "nil"]

\* hashHex for address: the digits of the Keccak-256 digest of its text.
HashHex(address) == EncodeToString(Keccak256(address))

\* ToChecksumAddress(a): the outcome [panic, str, err].
ChecksumWith(address) == ChecksumLoop(address, HashHex(address))
ToChecksumAddress(a) == ChecksumWith(EncodeToString(a))

\* The end of IsChecksumAddress, e being the outcome of ToChecksumAddress.
\* An outcome is [panic, ret, calls], calls being the functions of the
\* package the call went through.
CompareAnyCase(address, e) ==
    [panic |-> e.panic,
     ret   |-> /\ ~e.panic
               /\ e.err = "nil"
               /\ Len(address) = Len(e.str)
               /\ \A i \in 1..Len(address) : ToUpper(address[i]) = ToUpper(e.str[i]),
     calls |-> <<"ToChecksumAddress">>]
CompareExpected(address, e) ==
    IF e.panic
    THEN [panic |-> TRUE, ret |-> FALSE, calls |-> <<"ToChecksumAddress">>]
    ELSE IF e.err # "nil"
    THEN [panic |-> FALSE, ret |-> FALSE, calls |-> <<"ToChecksumAddress">>]
    ELSE [panic |-> FALSE, ret |-> address = e.str, calls |-> <<"ToChecksumAddress">>]

\* The middle of IsChecksumAddress, d being the outcome of hex.DecodeString.
CheckDecoded(address, d) ==
    IF d.err # "nil"
    THEN [panic |-> FALSE, ret |-> FALSE, calls |-> <<>>]
    ELSE CompareExpected(address, ToChecksumAddress(d.bytes))

\* IsChecksumAddress(address): the outcome [panic, ret, calls].
IsChecksumAddressNoLength(address) ==
    IF ~HasPrefix(address, Prefix0x)
    THEN [panic |-> FALSE, ret |-> FALSE, calls |-> <<>>]
    ELSE CheckDecoded(address, DecodeString(SubSeq(address, 3, Len(address))))
IsChecksumAddress(address) ==
    IF ~HasPrefix(address, Prefix0x) \/ Len(address) # AddressLen
    THEN [panic |-> FALSE, ret |-> FALSE, calls |-> <<>>]
    ELSE CheckDecoded(address, DecodeString(SubSeq(address, 3, Len(address))))

(***************************************************************************)
(* Padding to 32 bytes.                                                    *)
(***************************************************************************)
PadLen == 32

Zeros(n) == [i \in 1..n |-> 0]

\* copy(dst, src) for byte sequences: the first min(len(dst), len(src))
\* bytes of dst are replaced by those of src.
Copy(dst, src) ==
    [i \in 1..Len(dst) |-> IF i <= Len(src) THEN src[i] ELSE dst[i]]

\* After paddedData := make([]byte, 32), the effect of
\* copy(paddedData[32-len(data):], data) on paddedData, for len(data) <= 32.
RightJustifyLeft(data) == Copy(Zeros(PadLen), data)
RightJustify(data) ==
    Zeros(PadLen - Len(data)) \o Copy(Zeros(Len(data)), data)

\* PadHexStringTo32Bytes(hexString): the outcome [panic, bytes, isNil, err].
\* The slice expression paddedData[32-len(data):] has a negative bound, and
\* the call panics, when data has more than 32 bytes.
PadHexStringTo32Bytes(hexStringArg) ==
    LET stripped == IF HasPrefix(hexStringArg, Prefix0x)
                    THEN SubSeq(hexStringArg, 3, Len(hexStringArg))
                    ELSE hexStringArg
        d == DecodeString(stripped)
    IN  IF d.err # "nil"
        THEN [panic |-> FALSE, bytes |-> <<>>, isNil |-> TRUE, err |-> d.err]
        ELSE IF PadLen - Len(d.bytes) < 0
        THEN [panic |-> TRUE, bytes |-> <<>>, isNil |-> TRUE, err |-> "nil"]
        ELSE [panic |-> FALSE, bytes |-> RightJustify(d.bytes), isNil |-> FALSE,
              err |-> "nil"]

(***************************************************************************)
(* Byte slices with their storage.  mem is the sequence of backing arrays; *)
(* a slice [ptr, len, cap] is the first len bytes of the array mem[ptr],   *)
(* which has cap bytes.                                                    *)
(***************************************************************************)
\* The bytes of slice s.
Bytes(m, s) == SubSeq(m[s.ptr], 1, s.len)

\* The slice holding the whole of the array mem[p].
WholeSlice(m, p) == [ptr |-> p, len |-> Len(m[p]), cap |-> Len(m[p])]

\* make([]byte, len, cap): a slice of a new, zeroed array.
Make(m, len, cap) ==
    [mem   |-> Append(m, Zeros(cap)),
     slice |-> [ptr |-> Len(m) + 1, len |-> len, cap |-> cap]]

\* PadTo32Bytes(sender): the memory after the call and the slice returned.
PadTo32BytesTruncating(m, sender) ==
    LET a == Make(m, PadLen, PadLen)
        data == Bytes(m, sender)
        kept == IF Len(data) > PadLen
                THEN SubSeq(data, Len(data) - PadLen + 1, Len(data)) ELSE data
    IN  [mem |-> [a.mem EXCEPT ![a.slice.ptr] = RightJustify(kept)],
         ret |-> a.slice]
PadTo32Bytes(m, sender) ==
    IF sender.len >= PadLen
    THEN [mem |-> m, ret |-> sender]
    ELSE LET a == Make(m, PadLen, PadLen)
         IN  [mem |-> [a.mem EXCEPT ![a.slice.ptr] = RightJustify(Bytes(m, sender))],
              ret |-> a.slice]

\* append(s, b...): in place when the capacity of s allows it, else into a
\* new array.
AppendSlice(m, s, b) ==
    LET src == Bytes(m, b)
        n   == s.len + b.len
    IN  IF n <= s.cap
        THEN [mem   |-> [m EXCEPT ![s.ptr] =
                            [i \in 1..Len(@) |->
                                IF i > s.len /\ i <= n THEN src[i - s.len] ELSE @[i]]],
              slice |-> [s EXCEPT !.len = n]]
        ELSE [mem   |-> Append(m, Bytes(m, s) \o src),
              slice |-> [ptr |-> Len(m) + 1, len |-> n, cap |-> n]]

RECURSIVE SumLen(_, _)
\* The first loop of ConcatBytes: size after the arguments from k on.
SumLen(bytes, k) ==
    IF k > Len(bytes) THEN 0 ELSE bytes[k].len + SumLen(bytes, k + 1)

RECURSIVE AppendAll(_, _, _, _)
\* The second loop of ConcatBytes, from argument k on.
AppendAllReversed(m, result, bytes, k) ==
    IF k > Len(bytes) THEN [mem |-> m, slice |-> result]
    ELSE LET r == AppendAll(m, result, bytes, k + 1)
         IN  AppendSlice(r.mem, r.slice, bytes[k])
AppendAll(m, result, bytes, k) ==
    IF k > Len(bytes) THEN [mem |-> m, slice |-> result]
    ELSE LET r == AppendSlice(m, result, bytes[k])
         IN  AppendAll(r.mem, r.slice, bytes, k + 1)

\* ConcatBytes(bytes...): the memory after the call and the slice returned.
ConcatBytes(m, bytes) ==
    LET size == SumLen(bytes, 1)
        a == Make(m, 0, size)
        r == AppendAll(a.mem, a.slice, bytes, 1)
    IN  [mem |-> r.mem, ret |-> r.slice]

(***************************************************************************)
(* The inputs.                                                             *)
(***************************************************************************)
MaxBytes == 34
MaxArgs == 3
MaxFlips == 2

\* n bytes, all different from their neighbours.
ByteInput(n, seed) == [i \in 1..n |-> (seed + 7 * i) % 256]
Seeds == {3, 170}

\* 20-byte addresses: 00..00, the address of the README
\* (1234567890abcdef1234567890abcdef12345678), and
\* 0a000000000000000000b1000000000000000c07.
Addresses ==
    { Zeros(20),
      <<18, 52, 86, 120, 144, 171, 205, 239, 18, 52,
        86, 120, 144, 171, 205, 239, 18, 52, 86, 120>>,
      <<10, 0, 0, 0, 0, 0, 0, 0, 0, 0, 177, 0, 0, 0, 0, 0, 0, 0, 12, 7>> }
\* Arguments of other lengths.
OtherLens == {0, 1, 19, 21, 32, 33}
EncodeInputs == Addresses \cup { ByteInput(n, 170) : n \in OtherLens }

IsLower(c) == c >= ChLowerA /\ c <= ChLowerZ
IsUpper(c) == c >= ChUpperA /\ c <= ChLowerZ - (ChLowerA - ChUpperA)
ToLower(c) == IF IsUpper(c) THEN c + (ChLowerA - ChUpperA) ELSE c
FlipCase(c) == IF IsLower(c) THEN ToUpper(c) ELSE ToLower(c)

\* The positions of the letters of s after its two-character prefix.
LetterPositions(s) == {i \in 3..Len(s) : IsLower(s[i]) \/ IsUpper(s[i])}
\* s with the case of the letters at the positions F flipped.
FlipCases(s, F) == [i \in 1..Len(s) |-> IF i \in F THEN FlipCase(s[i]) ELSE s[i]]
RECURSIVE FlipSets(_, _)
\* The sets of at most k of the positions L.
FlipSets(L, k) ==
    IF k = 0 THEN {{}}
    ELSE LET P == FlipSets(L, k - 1) IN P \cup {F \cup {i} : F \in P, i \in L}
\* The strings tried on IsChecksumAddress, made from a string s that
\* ToChecksumAddress returned: s with the case of up to MaxFlips letters
\* flipped, its digits in lower and in upper case, and malformed strings.
CaseVariants(s) ==
    { FlipCases(s, F) : F \in FlipSets(LetterPositions(s), MaxFlips) }
        \cup { FlipCases(s, {i \in LetterPositions(s) : IsUpper(s[i])}),
               FlipCases(s, {i \in LetterPositions(s) : IsLower(s[i])}) }
Malformed(s) ==
    { <<>>,
      [s EXCEPT ![2] = ToUpper(ChLowerX)],
      [s EXCEPT ![1] = ChLowerX],
      SubSeq(s, 3, Len(s)),
      SubSeq(s, 1, Len(s) - 1),
      s \o <<Ch0>>,
      Prefix0x \o s,
      [s EXCEPT ![Len(s)] = ChLowerF + 1],
      [s EXCEPT ![3] = ChLowerF + 1],
      [s EXCEPT ![3] = ChLowerX] }
Candidates(s) ==
    IF Len(s) < 3 THEN {s, <<>>, s \o <<Ch0>>}
    ELSE IF Len(s) = AddressLen THEN CaseVariants(s) \cup Malformed(s)
    ELSE {s} \cup Malformed(s)

\* The arguments of PadHexStringTo32Bytes: an optional prefix, the digits of
\* up to MaxBytes bytes in lower or upper case, and an optional tail that
\* makes the length odd or is no hex digit.
HexPrefixes == {<<>>, Prefix0x, <<Ch0, ToUpper(ChLowerX)>>, Prefix0x \o Prefix0x}
HexTails == {<<>>, <<Ch0 + 1>>, <<ChLowerF + 1>>, <<ChLowerZ, ChLowerZ>>}
HexInputs ==
    { pre \o (IF up THEN [i \in 1..(2 * n) |-> ToUpper(EncodeToString(ByteInput(n, seed))[i])]
                    ELSE EncodeToString(ByteInput(n, seed))) \o tail :
        pre \in HexPrefixes, n \in 0..MaxBytes, seed \in Seeds, up \in BOOLEAN,
        tail \in HexTails }

\* The arrays ConcatBytes is given slices of.
Pool == << <<>>, <<1>>, <<2, 3>>, <<4, 5, 6>> >>
ArgLists == UNION { [1..n -> 1..Len(Pool)] : n \in 0..MaxArgs }

(***************************************************************************)
(* The calls.                                                              *)
(***************************************************************************)
NoEncoded == [panic |-> FALSE, str |-> <<>>, err |-> "none"]
NoValid == [panic |-> FALSE, ret |-> FALSE, calls |-> <<>>]
NoPadded == [panic |-> FALSE, bytes |-> <<>>, isNil |-> TRUE, err |-> "none"]
NoSlice == [ptr |-> 0, len |-> 0, cap |-> 0]

Init ==
    /\ op = "none"
    /\ written = "none"
    /\ addr = <<>>
    /\ encoded = NoEncoded
    /\ candidate = <<>>
    /\ valid = NoValid
    /\ hexString = <<>>
    /\ padded = NoPadded
    /\ mem = <<>>
    /\ args = <<>>
    /\ ret = NoSlice
    /\ argVals = <<>>
    /\ retVal = <<>>

\* checksumAddress, err := ToChecksumAddress(a)
CallToChecksumAddress(a) ==
    /\ op = "none"
    /\ op' = "ToChecksumAddress"
    /\ addr' = a
    /\ encoded' = ToChecksumAddress(a)
    /\ UNCHANGED <<written, candidate, valid, hexString, padded, mem, args, ret,
                   argVals, retVal>>

\* isValid := IsChecksumAddress(s), s made from the string returned before.
CallIsChecksumAddress ==
    /\ op = "ToChecksumAddress"
    /\ ~encoded.panic
    /\ \E s \in Candidates(encoded.str) :
        /\ candidate' = s
        /\ valid' = IsChecksumAddress(s)
    /\ op' = "IsChecksumAddress"
    /\ UNCHANGED <<written, addr, encoded, hexString, padded, mem, args, ret,
                   argVals, retVal>>

\* paddedData, err := PadHexStringTo32Bytes(s)
CallPadHexStringTo32Bytes(s) ==
    /\ op = "none"
    /\ op' = "PadHexStringTo32Bytes"
    /\ hexString' = s
    /\ padded' = PadHexStringTo32Bytes(s)
    /\ UNCHANGED <<written, addr, encoded, candidate, valid, mem, args, ret,
                   argVals, retVal>>

\* paddedBytes := PadTo32Bytes(x), x a slice holding an array of its own.
CallPadTo32Bytes(x) ==
    LET m0 == <<x>>
        r  == PadTo32Bytes(m0, WholeSlice(m0, 1))
    IN  /\ op = "none"
        /\ op' = "PadTo32Bytes"
        /\ mem' = r.mem
        /\ args' = <<WholeSlice(m0, 1)>>
        /\ ret' = r.ret
        /\ argVals' = <<x>>
        /\ retVal' = Bytes(r.mem, r.ret)
        /\ UNCHANGED <<written, addr, encoded, candidate, valid, hexString, padded>>

\* concatenated := ConcatBytes(xs...), argument k being the whole of the
\* array Pool[idx[k]] (an array may be passed more than once).
CallConcatBytes(idx) ==
    LET xs == [k \in 1..Len(idx) |-> WholeSlice(Pool, idx[k])]
        r  == ConcatBytes(Pool, xs)
    IN  /\ op = "none"
        /\ op' = "ConcatBytes"
        /\ mem' = r.mem
        /\ args' = xs
        /\ ret' = r.ret
        /\ argVals' = [k \in 1..Len(idx) |-> Bytes(Pool, xs[k])]
        /\ retVal' = Bytes(r.mem, r.ret)
        /\ UNCHANGED <<written, addr, encoded, candidate, valid, hexString, padded>>

\* The caller's write ret[i-1]++ to the returned slice.
WriteRet(i) ==
    /\ op \in {"PadTo32Bytes", "ConcatBytes"}
    /\ written = "none"
    /\ written' = "ret"
    /\ mem' = [mem EXCEPT ![ret.ptr][i] = (@ + 1) % 256]
    /\ UNCHANGED <<op, addr, encoded, candidate, valid, hexString, padded, args, ret,
                   argVals, retVal>>

\* The caller's write arg[i-1]++ to argument k.
WriteArg(k, i) ==
    /\ op \in {"PadTo32Bytes", "ConcatBytes"}
    /\ written = "none"
    /\ written' = "arg"
    /\ mem' = [mem EXCEPT ![args[k].ptr][i] = (@ + 1) % 256]
    /\ UNCHANGED <<op, addr, encoded, candidate, valid, hexString, padded, args, ret,
                   argVals, retVal>>

Next ==
    \/ \E a \in EncodeInputs : CallToChecksumAddress(a)
    \/ CallIsChecksumAddress
    \/ \E s \in HexInputs : CallPadHexStringTo32Bytes(s)
    \/ \E n \in 0..MaxBytes, seed \in Seeds : CallPadTo32Bytes(ByteInput(n, seed))
    \/ \E idx \in ArgLists : CallConcatBytes(idx)
    \/ \E i \in 1..ret.len : WriteRet(i)
    \/ \E k \in 1..Len(args) : \E i \in 1..args[k].len : WriteArg(k, i)

Spec == Init /\ [][Next]_vars

(***************************************************************************)
(* The properties.  Their reference definitions are written from the       *)
(* statements, independently of the functions above.                       *)
(***************************************************************************)
AddressBytes == 20

DigitsLower == <<48, 49, 50, 51, 52, 53, 54, 55, 56, 57, 97, 98, 99, 100, 101, 102>>
DigitsUpper == <<48, 49, 50, 51, 52, 53, 54, 55, 56, 57, 65, 66, 67, 68, 69, 70>>
RefIsHexDigit(c) == \E v \in 1..16 : c = DigitsLower[v] \/ c = DigitsUpper[v]
RefDigit(c) == (CHOOSE v \in 1..16 : c = DigitsLower[v] \/ c = DigitsUpper[v]) - 1
RefLowerOf(c) == IF \E v \in 11..16 : c = DigitsUpper[v]
                 THEN DigitsLower[CHOOSE v \in 11..16 : c = DigitsUpper[v]] ELSE c
RefUpperOf(c) == IF \E v \in 11..16 : c = DigitsLower[v]
                 THEN DigitsUpper[CHOOSE v \in 11..16 : c = DigitsLower[v]] ELSE c
RefIsHexLetter(c) == \E v \in 11..16 : c = DigitsLower[v]
\* s is "0x" followed by 40 characters that are, but for their case, the
\* lowercase hex text of the address a.
RefIsCaseVariant(s, a) ==
    /\ Len(a) = AddressBytes
    /\ Len(s) = 2 * AddressBytes + 2
    /\ SubSeq(s, 1, 2) = <<Ch0, ChLowerX>>
    /\ \A i \in 1..(2 * AddressBytes) : RefLowerOf(s[i + 2]) = EncodeToString(a)[i]
\* The number of positions at which s and t, of one length, differ.
Distance(s, t) == Cardinality({i \in 1..Len(s) : s[i] # t[i]})
\* s starts with "0x", has 42 characters, and all after the prefix are hex
\* digits.
RefWellFormed(s) ==
    /\ Len(s) = 2 * AddressBytes + 2
    /\ s[1] = Ch0 /\ s[2] = ChLowerX
    /\ \A i \in 3..Len(s) : RefIsHexDigit(s[i])
\* s without one leading "0x".
RefStrip(s) ==
    IF Len(s) >= 2 /\ s[1] = Ch0 /\ s[2] = ChLowerX THEN SubSeq(s, 3, Len(s)) ELSE s
\* t decodes: an even number of hex digits.
RefDecodes(t) == Len(t) % 2 = 0 /\ \A i \in 1..Len(t) : RefIsHexDigit(t[i])
RefByte(t, k) == 16 * RefDigit(t[2 * k - 1]) + RefDigit(t[2 * k])
RECURSIVE RefFlatten(_)
RefFlatten(xs) == IF xs = <<>> THEN <<>> ELSE Head(xs) \o RefFlatten(Tail(xs))
RECURSIVE RefTotalLen(_)
RefTotalLen(xs) == IF xs = <<>> THEN 0 ELSE Len(Head(xs)) + RefTotalLen(Tail(xs))

\* C1: round trip. For every 20-byte address a, IsChecksumAddress applied to
\* the string ToChecksumAddress(a) returned gives true.
RoundTrip ==
    (op = "IsChecksumAddress" /\ Len(addr) = AddressBytes /\ candidate = encoded.str)
        => (valid.ret /\ ~valid.panic)
RoundTripWitness ==
    /\ op = "IsChecksumAddress"
    /\ Len(addr) = AddressBytes
    /\ candidate = encoded.str
    /\ valid.ret
    /\ \E i \in 3..Len(candidate) : RefIsHexLetter(RefLowerOf(candidate[i])) /\ candidate[i] # RefLowerOf(candidate[i])
    /\ \E i \in 3..Len(candidate) : RefIsHexLetter(candidate[i])

\* C2: ToChecksumAddress never fails. For every byte sequence, of any
\* length, it returns a string and a nil error and does not panic, and the
\* empty input gives "0x".
EncodeNeverFails ==
    op = "ToChecksumAddress"
        => /\ ~encoded.panic
           /\ encoded.err = "nil"
           /\ (addr = <<>> => encoded.str = <<Ch0, ChLowerX>>)

\* C3: for every 20-byte address a, ToChecksumAddress(a) is "0x" followed by
\* 40 characters, character i being the uppercase form of addrHex[i] when
\* addrHex[i] is a letter a-f and hashHex[i] is a nibble of value 8..15, and
\* addrHex[i] otherwise; lowercasing the output gives "0x" + addrHex.
ChecksumRule ==
    (op = "ToChecksumAddress" /\ Len(addr) = AddressBytes)
        => LET addrHex == EncodeToString(addr)
               hashHex == HashHex(addrHex)
               out == encoded.str
           IN  /\ ~encoded.panic /\ encoded.err = "nil"
               /\ Len(out) = 2 * AddressBytes + 2
               /\ out[1] = Ch0 /\ out[2] = ChLowerX
               /\ \A i \in 1..(2 * AddressBytes) :
                    /\ out[i + 2] = IF RefIsHexLetter(addrHex[i]) /\ RefDigit(hashHex[i]) >= 8
                                    THEN RefUpperOf(addrHex[i]) ELSE addrHex[i]
                    /\ RefLowerOf(out[i + 2]) = addrHex[i]
                    /\ (~RefIsHexLetter(addrHex[i]) => out[i + 2] = addrHex[i])
ChecksumRuleWitness ==
    /\ op = "ToChecksumAddress"
    /\ Len(addr) = AddressBytes
    /\ LET addrHex == EncodeToString(addr)
           hashHex == HashHex(addrHex)
       IN  /\ \E i \in 1..Len(addrHex) :
                RefIsHexLetter(addrHex[i]) /\ RefDigit(hashHex[i]) >= 8
                    /\ encoded.str[i + 2] = RefUpperOf(addrHex[i])
           /\ \E i \in 1..Len(addrHex) :
                RefIsHexLetter(addrHex[i]) /\ RefDigit(hashHex[i]) < 8
                    /\ encoded.str[i + 2] = addrHex[i]
           /\ \E i \in 1..Len(addrHex) :
                ~RefIsHexLetter(addrHex[i]) /\ RefDigit(hashHex[i]) >= 8
                    /\ encoded.str[i + 2] = addrHex[i]

\* C4: uniqueness. For every 20-byte address a, IsChecksumAddress accepts a
\* 42-character string whose digits are those of a, in either case, exactly
\* when the string is ToChecksumAddress(a); flipping the case of any one
\* letter of ToChecksumAddress(a) gives a string it rejects.
UniqueChecksum ==
    (op = "IsChecksumAddress" /\ RefIsCaseVariant(candidate, addr))
        => /\ ~valid.panic
           /\ valid.ret <=> (candidate = encoded.str)
UniqueChecksumWitness ==
    /\ op = "IsChecksumAddress"
    /\ RefIsCaseVariant(candidate, addr)
    /\ Distance(candidate, encoded.str) = 1
    /\ ~valid.ret

\* C5: IsChecksumAddress answers malformed input with false, without panic:
\* every string that does not start with "0x", or has not 42 characters, or
\* has a character after the prefix that is no hex digit, gives false, and
\* ToChecksumAddress is called for none of them.
MalformedIsFalse ==
    op = "IsChecksumAddress"
        => /\ ~valid.panic
           /\ ~RefWellFormed(candidate) => (~valid.ret /\ valid.calls = <<>>)
MalformedIsFalseWitness ==
    /\ op = "IsChecksumAddress"
    /\ Len(candidate) = 2 * AddressBytes + 2
    /\ candidate[1] = Ch0 /\ candidate[2] = ChLowerX
    /\ \E i \in 3..Len(candidate) : ~RefIsHexDigit(candidate[i])
    /\ ~valid.ret
    /\ valid.calls = <<>>

\* C6: PadHexStringTo32Bytes on a string whose hex part does not decode, or
\* decodes to at most 32 bytes. After one optional leading "0x" is
\* stripped: a remainder of odd length or with a character that is no hex
\* digit gives an error and no bytes; otherwise the call gives a nil error
\* and 32 bytes, (32 - n) zeros followed by the n decoded bytes.
PadHexReference ==
    op = "PadHexStringTo32Bytes"
        => LET t == RefStrip(hexString)
               n == Len(t) \div 2
           IN  IF ~RefDecodes(t)
               THEN ~padded.panic /\ padded.err # "nil" /\ padded.isNil
               ELSE n <= 32
                    => /\ ~padded.panic /\ padded.err = "nil" /\ ~padded.isNil
                       /\ Len(padded.bytes) = 32
                       /\ \A i \in 1..32 :
                            padded.bytes[i] =
                                IF i <= 32 - n THEN 0 ELSE RefByte(t, i - (32 - n))
PadHexReferenceWitness ==
    /\ op = "PadHexStringTo32Bytes"
    /\ Len(hexString) = 6
    /\ hexString[1] = Ch0 /\ hexString[2] = ChLowerX
    /\ ~padded.panic /\ padded.err = "nil"
    /\ Len(padded.bytes) = 32
    /\ padded.bytes[31] = RefByte(SubSeq(hexString, 3, 6), 1)
    /\ padded.bytes[32] = RefByte(SubSeq(hexString, 3, 6), 2)
    /\ padded.bytes[31] # 0 /\ padded.bytes[32] # 0
    /\ \A i \in 1..30 : padded.bytes[i] = 0

\* C7: PadTo32Bytes(x) is x itself, not truncated, when x has 32 bytes or
\* more, and (32 - len(x)) zeros followed by x when x is shorter; applying
\* it to its own result changes nothing.
PadTo32Reference ==
    (op = "PadTo32Bytes" /\ written = "none")
        => LET x == argVals[1]
               again == PadTo32Bytes(mem, ret)
           IN  /\ retVal = IF Len(x) >= 32 THEN x
                           ELSE [i \in 1..(32 - Len(x)) |-> 0] \o x
               /\ Bytes(again.mem, again.ret) = retVal
PadTo32ReferenceWitness ==
    /\ op = "PadTo32Bytes"
    /\ written = "none"
    /\ Len(argVals[1]) > 32
    /\ retVal = argVals[1]
    /\ Len(retVal) > 32

\* C8: ConcatBytes returns the bytes of its arguments, in their order, with
\* nothing between them: the length is the sum of the lengths, two arguments
\* a and b give a followed by b, and no arguments give the empty sequence.
ConcatReference ==
    (op = "ConcatBytes" /\ written = "none")
        => /\ retVal = RefFlatten(argVals)
           /\ Len(retVal) = RefTotalLen(argVals)
           /\ (Len(argVals) = 2 => retVal = argVals[1] \o argVals[2])
           /\ (Len(argVals) = 0 => retVal = <<>>)
ConcatReferenceWitness ==
    /\ op = "ConcatBytes"
    /\ written = "none"
    /\ Len(argVals) = 3
    /\ argVals[1] # <<>> /\ argVals[2] = <<>> /\ argVals[3] # <<>>
    /\ argVals[1] # argVals[3]
    /\ retVal = argVals[1] \o argVals[3]

\* C9: PadTo32Bytes and ConcatBytes return a sequence that shares no storage
\* with an argument: a later write to the returned sequence changes no
\* argument, and a later write to an argument does not change the returned
\* sequence.
NoSharedStorage ==
    /\ written = "ret" => \A k \in 1..Len(args) : Bytes(mem, args[k]) = argVals[k]
    /\ written = "arg" => Bytes(mem, ret) = retVal

\* C10: for every valid hex string that decodes to more than 32 bytes,
\* PadHexStringTo32Bytes returns, without failing, 32 bytes: the rightmost
\* 32 of the decoded bytes.
PadHexLongKeepsLast32 ==
    (op = "PadHexStringTo32Bytes" /\ RefDecodes(RefStrip(hexString))
        /\ Len(RefStrip(hexString)) \div 2 > 32)
        => LET t == RefStrip(hexString)
               n == Len(t) \div 2
           IN  /\ ~padded.panic /\ padded.err = "nil" /\ ~padded.isNil
               /\ Len(padded.bytes) = 32
               /\ \A i \in 1..32 : padded.bytes[i] = RefByte(t, n - 32 + i)
====
